---------------------------- MODULE Spec2Model ----------------------------
(***************************************************************************)
(* Model of mcpclient.MCPClient (src/mcpclient/mcpclient.py).              *)
(*                                                                         *)
(* The client object holds a configuration (base_url, api_key, category,   *)
(* verify_tls, headers).  run_a_scenario / get_tools are coroutines built  *)
(* from two nested `async with` statements; every `await` in them is a     *)
(* point where another coroutine may run, where the awaited library call   *)
(* may raise, and where asyncio may deliver a CancelledError.  They are    *)
(* modelled one action per await.  health_check is a plain blocking        *)
(* function and is modelled as one action.                                 *)
(*                                                                         *)
(* The streaming transport and the ClientSession are library objects used  *)
(* as async context managers.  Their contract is the language's: when      *)
(* __aenter__ raises the block is not entered and __aexit__ is not called; *)
(* once entered, __aexit__ is awaited exactly once however the block is    *)
(* left; an exception raised out of __aexit__ (a failure while closing, a  *)
(* cancellation delivered while the close is awaited) replaces whatever    *)
(* was propagating.  A resource counts as closed once its __aexit__ has    *)
(* been awaited.  The synchronous httpx client of health_check is closed   *)
(* by its `with` block without suspending.                                 *)
(*                                                                         *)
(* Python values are modelled as tuples of strings: None is <<"None">>,    *)
(* a string s is <<"str", s>>, a list of tool names is <<"list", ...>>.    *)
(***************************************************************************)
EXTENDS Integers, Sequences, FiniteSets, TLC

\* ------------------------------------------------------------------ bounds
NumCalls == 2        \* run_a_scenario / get_tools invocations made on the client
MaxToolCalls == 2    \* tool calls one caller-supplied scenario issues
MaxHealth == 1       \* health_check invocations made on the client

Calls == 1..NumCalls

\* ------------------------------------------------------------------ inputs
NoneType == <<>>                       \* Optional[str]: <<>> is None, <<s>> is s
Some(s) == <<s>>
PyNone == <<"None">>
PyStr(s) == <<"str", s>>
PyList(names) == <<"list">> \o names

BaseUrls == {"https://h", "http://s", ""}
ApiKeys == {"k", "t0", ""}
Categories == {NoneType, Some(""), Some("x"), Some("job_management")}
\* the timeout argument the transport library hands the client factory:
\* none, or a timeout of its own
LibTimeouts == {NoneType, Some(5)}
\* the configurations the client is constructed with: <<base_url, api_key,
\* category, verify_tls>>, and the library's timeout in that process
Configs ==
    { <<"https://h", "k", NoneType, FALSE, NoneType>>,
      <<"https://h", "t0", Some("x"), TRUE, Some(5)>>,
      <<"http://s", "k", Some(""), TRUE, NoneType>>,
      <<"http://s", "t0", Some("job_management"), FALSE, Some(5)>> }
ScenarioValues == {PyNone, PyStr("a")}              \* what a scenario may return
ServerTools == {<<"a", "b", "c">>, <<"b", "a">>}    \* what list_tools may answer

NoExc == "none"
AwaitErrors == {"TransportError", "CancelledError"}  \* raised by an awaited library call
InitErrors == AwaitErrors \cup {"ProtocolError"}     \* session.initialize() may also fail
\* raised out of an awaited __aexit__: a failure while closing, or a
\* CancelledError delivered while the close is awaited
ExitErrors == {"CleanupError"}

VARIABLES
    base_url, api_key, category, verify_tls, headers,   \* self.* set by __init__
    lib_timeout,                                         \* the transport library's timeout
    pc, kind, tid, sid, arg, exc, ret, ncalls, last, scen, outcome, log,  \* per invocation
    transports, sessions,                                \* objects the library created
    health,                                              \* finished health_check calls
    poll_pc, attempts, job_complete, polls               \* the job-status polling loop

config == <<base_url, api_key, category, verify_tls, headers>>
frames == <<pc, kind, tid, sid, arg, exc, ret, ncalls, last, scen, outcome, log>>
polling == <<poll_pc, attempts, job_complete, polls>>
vars == <<config, lib_timeout, frames, transports, sessions, health, polling>>

\* ------------------------------------------------------------ __init__
\* self.headers = {"Authorization": f"Bearer {api_key}"}
AuthHeaders_raw(key) == [Authorization |-> key]

AuthHeaders(key) == [Authorization |-> "Bearer " \o key]

MCPClientInit(b, k, c, v) ==
    /\ base_url = b
    /\ api_key = k
    /\ category = c
    /\ verify_tls = v
    /\ headers = AuthHeaders(k)

\* ------------------------------------------- create_httpx_client_with_ssl
\* The kwargs handed to httpx.AsyncClient / httpx.Client.  "verify" is the
\* ssl context built when verify_tls is false, and is absent ("default")
\* otherwise; a timeout of NoneType becomes httpx.Timeout(30.0).
DefaultTimeout == 30

SslContextNoVerify == [check_hostname |-> FALSE, verify_mode |-> "CERT_NONE"]
SslContextDefault == [check_hostname |-> TRUE, verify_mode |-> "CERT_REQUIRED"]

create_httpx_client_with_ssl_async_only(hdrs, timeout, auth, async_client) ==
    [ follow_redirects |-> TRUE,
      verify_given |-> ~verify_tls /\ async_client,
      verify |-> IF ~verify_tls /\ async_client THEN SslContextNoVerify ELSE SslContextDefault,
      timeout |-> IF timeout = NoneType THEN DefaultTimeout ELSE timeout[1],
      headers |-> hdrs,
      auth |-> auth,
      async |-> async_client ]

create_httpx_client_with_ssl_fixed_timeout(hdrs, timeout, auth, async_client) ==
    [ follow_redirects |-> TRUE,
      verify_given |-> ~verify_tls,
      verify |-> IF ~verify_tls THEN SslContextNoVerify ELSE SslContextDefault,
      timeout |-> DefaultTimeout,
      headers |-> hdrs,
      auth |-> auth,
      async |-> async_client ]

create_httpx_client_with_ssl(hdrs, timeout, auth, async_client) ==
    [ follow_redirects |-> TRUE,
      verify_given |-> ~verify_tls,
      verify |-> IF ~verify_tls THEN SslContextNoVerify ELSE SslContextDefault,
      timeout |-> IF timeout = NoneType THEN DefaultTimeout ELSE timeout[1],
      headers |-> hdrs,
      auth |-> auth,
      async |-> async_client ]

\* ------------------------------------------------------------ get_client
\* `if self.category`: None and the empty string are both falsy.
Truthy(c) == c # NoneType /\ c[1] # ""

McpUrl_nocheck(b, c) == IF c # NoneType THEN b \o "/" \o c[1] \o "/mcp" ELSE b \o "/mcp"

McpUrl_nocategory(b, c) == b \o "/mcp"

McpUrl(b, c) == IF Truthy(c) THEN b \o "/" \o c[1] \o "/mcp" ELSE b \o "/mcp"

\* streamablehttp_client(mcp_url, headers=self.headers, httpx_client_factory=...):
\* the library builds its HTTP client through the factory, passing the
\* headers it was given, its own timeout and no auth.
get_client_cached ==
    [ url |-> IF transports = {} THEN McpUrl(base_url, category)
                                 ELSE (CHOOSE t \in transports : TRUE).url,
      headers |-> headers,
      httpx_client_factory |-> create_httpx_client_with_ssl(headers, lib_timeout, NoneType, TRUE) ]

get_client ==
    [ url |-> McpUrl(base_url, category),
      headers |-> headers,
      httpx_client_factory |-> create_httpx_client_with_ssl(headers, lib_timeout, NoneType, TRUE) ]

\* ------------------------------------------------------------------ Init
NoFrame(v) == [i \in Calls |-> v]

\* Objects the library creates (transports, sessions) are records in a set;
\* an object's identity is <<the invocation that created it, a serial number>>
\* and a frame holds the identity of the object bound by its `as` clause.
NoObj == <<>>
NewId(objs, i) == <<i, Cardinality({o \in objs : o.owner = i}) + 1>>
Obj(objs, id) == CHOOSE o \in objs : o.id = id
Closed(objs, id) ==
    {IF o.id = id THEN [o EXCEPT !.open = FALSE, !.closes = @ + 1] ELSE o : o \in objs}

\* job_complete = False; attempts = 0, before the `while` is first tested
PollingNotStarted ==
    /\ poll_pc = "while"
    /\ attempts = 0
    /\ job_complete = FALSE
    /\ polls = 0

NothingCalled_eager ==
    /\ pc = NoFrame("idle")
    /\ kind = NoFrame("none")
    /\ tid = NoFrame(NoObj)
    /\ sid = NoFrame(NoObj)
    /\ arg = NoFrame(NoObj)
    /\ exc = NoFrame(NoExc)
    /\ ret = NoFrame(PyNone)
    /\ ncalls = NoFrame(0)
    /\ last = NoFrame("none")
    /\ scen = NoFrame("none")
    /\ outcome = NoFrame([kind |-> "pending", value |-> PyNone])
    /\ log = NoFrame(<<>>)
    /\ transports = {[id |-> <<1, 0>>, owner |-> 1, url |-> get_client.url,
                      headers |-> get_client.headers,
                      client |-> get_client.httpx_client_factory,
                      open |-> TRUE, closes |-> 0]}
    /\ sessions = {}
    /\ health = <<>>
    /\ PollingNotStarted

NothingCalled ==
    /\ pc = NoFrame("idle")
    /\ kind = NoFrame("none")
    /\ tid = NoFrame(NoObj)
    /\ sid = NoFrame(NoObj)
    /\ arg = NoFrame(NoObj)
    /\ exc = NoFrame(NoExc)
    /\ ret = NoFrame(PyNone)
    /\ ncalls = NoFrame(0)
    /\ last = NoFrame("none")
    /\ scen = NoFrame("none")
    /\ outcome = NoFrame([kind |-> "pending", value |-> PyNone])
    /\ log = NoFrame(<<>>)
    /\ transports = {}
    /\ sessions = {}
    /\ health = <<>>
    /\ PollingNotStarted

Init ==
    /\ \E cfg \in Configs : MCPClientInit(cfg[1], cfg[2], cfg[3], cfg[4]) /\ lib_timeout = cfg[5]
    /\ NothingCalled

\* Every configuration of the input sets.
InitAny ==
    /\ \E b \in BaseUrls, k \in ApiKeys, c \in Categories, v \in BOOLEAN :
           MCPClientInit(b, k, c, v)
    /\ lib_timeout \in LibTimeouts
    /\ NothingCalled

\* -------------------------------------------------- the `async with` frame
Logged(i, ev) == [log EXCEPT ![i] = Append(@, ev)]
\* an awaited call raised e: the history keeps the step and the error
Failed(i, ev, e) == [log EXCEPT ![i] = @ \o <<ev, e>>]

\* What the coroutine hands its caller once the outermost block is left:
\* the pending exception if there is one, the returned value otherwise.
Result_none(e, r) ==
    IF e = NoExc THEN [kind |-> "return", value |-> PyNone]
                 ELSE [kind |-> "raise", value |-> <<e>>]

Result(e, r) ==
    IF e = NoExc THEN [kind |-> "return", value |-> r]
                 ELSE [kind |-> "raise", value |-> <<e>>]

\* The exception pending after `await __aexit__(...)`: __aexit__ returning
\* (falsy) re-raises what was pending, __aexit__ raising replaces it.
AfterExit_swallow(pending, raised) == raised

AfterExit_keep(pending, raised) == IF pending # NoExc THEN pending ELSE raised

AfterExit(pending, raised) == IF raised # NoExc THEN raised ELSE pending

\* ------------------------------------------------------- run_a_scenario
\* The caller awaits run_a_scenario(scenario_func) or get_tools().
Start(i) ==
    /\ pc[i] = "idle"
    /\ \A j \in Calls : j < i => pc[j] # "idle"     \* invocations are numbered as made
    /\ \E k \in {"run_a_scenario", "get_tools"} : kind' = [kind EXCEPT ![i] = k]
    /\ pc' = [pc EXCEPT ![i] = "enter_transport"]
    /\ log' = Logged(i, "start")
    /\ UNCHANGED <<polling, config, lib_timeout, tid, sid, arg, exc, ret, ncalls, last, scen, outcome,
                   transports, sessions, health>>

\* async with self.get_client() as (read_stream, write_stream, _):
\* get_client() runs and the transport's __aenter__ is awaited.  When
\* __aenter__ raises, the block is never entered and nothing is exited.
EnterTransport_locked(i) ==
    /\ pc[i] = "enter_transport"
    /\ \A t \in transports : ~t.open
    /\ transports' = transports \cup {[id |-> NewId(transports, i), owner |-> i,
                                        url |-> get_client.url,
                                        headers |-> get_client.headers,
                                        client |-> get_client.httpx_client_factory,
                                        open |-> TRUE, closes |-> 0]}
    /\ tid' = [tid EXCEPT ![i] = NewId(transports, i)]
    /\ pc' = [pc EXCEPT ![i] = "enter_session"]
    /\ log' = Logged(i, "t_open")
    /\ UNCHANGED <<polling, config, lib_timeout, kind, sid, arg, exc, ret, ncalls, last, scen, outcome,
                   sessions, health>>

EnterTransport_retry(i) ==
    /\ pc[i] = "enter_transport"
    /\ \/ /\ transports' = transports \cup {[id |-> NewId(transports, i), owner |-> i,
                                              url |-> get_client.url,
                                              headers |-> get_client.headers,
                                              client |-> get_client.httpx_client_factory,
                                              open |-> TRUE, closes |-> 0]}
          /\ tid' = [tid EXCEPT ![i] = NewId(transports, i)]
          /\ pc' = [pc EXCEPT ![i] = "enter_session"]
          /\ log' = Logged(i, "t_open")
          /\ UNCHANGED <<exc, outcome>>
       \/ /\ \E e \in AwaitErrors :
                /\ log' = [log EXCEPT ![i] = @ \o <<"t_open_failed", e>>]
                /\ IF e = "TransportError" /\ Len(log[i]) < 2
                   THEN UNCHANGED <<pc, exc, outcome>>
                   ELSE /\ exc' = [exc EXCEPT ![i] = e]
                        /\ outcome' = [outcome EXCEPT ![i] = Result(e, ret[i])]
                        /\ pc' = [pc EXCEPT ![i] = "done"]
          /\ UNCHANGED <<tid, transports>>
    /\ UNCHANGED <<polling, config, lib_timeout, kind, sid, arg, ret, ncalls, last, scen, sessions, health>>

NewTransport(i) ==
    [ id |-> NewId(transports, i),
      owner |-> i,
      url |-> get_client.url,
      headers |-> get_client.headers,
      client |-> get_client.httpx_client_factory,
      open |-> TRUE,
      closes |-> 0 ]

EnterTransport(i) ==
    /\ pc[i] = "enter_transport"
    /\ \/ /\ transports' = transports \cup {NewTransport(i)}
          /\ tid' = [tid EXCEPT ![i] = NewTransport(i).id]
          /\ pc' = [pc EXCEPT ![i] = "enter_session"]
          /\ log' = Logged(i, "t_open")
          /\ UNCHANGED <<exc, outcome>>
       \/ /\ \E e \in AwaitErrors :
                /\ exc' = [exc EXCEPT ![i] = e]
                /\ outcome' = [outcome EXCEPT ![i] = Result(e, ret[i])]
                /\ log' = Failed(i, "t_open_failed", e)
          /\ pc' = [pc EXCEPT ![i] = "done"]
          /\ UNCHANGED <<tid, transports>>
    /\ UNCHANGED <<polling, config, lib_timeout, kind, sid, arg, ret, ncalls, last, scen, sessions, health>>

\* async with ClientSession(read_stream, write_stream) as session:
EnterSession_pooled(i) ==
    /\ pc[i] = "enter_session"
    /\ IF sessions = {}
       THEN /\ sessions' = {[id |-> NewId(sessions, i), owner |-> i,
                             transport |-> tid[i], open |-> TRUE,
                             initialized |-> FALSE, listed |-> <<>>,
                             closes |-> 0]}
            /\ sid' = [sid EXCEPT ![i] = NewId(sessions, i)]
       ELSE /\ \E p \in sessions :
                  /\ sessions' = {IF o.id = p.id THEN [o EXCEPT !.open = TRUE] ELSE o :
                                     o \in sessions}
                  /\ sid' = [sid EXCEPT ![i] = p.id]
    /\ pc' = [pc EXCEPT ![i] = "initialize"]
    /\ log' = Logged(i, "s_open")
    /\ UNCHANGED <<polling, config, lib_timeout, kind, tid, arg, exc, ret, ncalls, last, scen, outcome,
                   transports, health>>

NewSession(i) ==
    [ id |-> NewId(sessions, i), owner |-> i, transport |-> tid[i], open |-> TRUE, initialized |-> FALSE,
      listed |-> <<>>,      \* what the server answered to list_tools on this session
      closes |-> 0 ]

EnterSession(i) ==
    /\ pc[i] = "enter_session"
    /\ \/ /\ sessions' = sessions \cup {NewSession(i)}
          /\ sid' = [sid EXCEPT ![i] = NewSession(i).id]
          /\ pc' = [pc EXCEPT ![i] = "initialize"]
          /\ log' = Logged(i, "s_open")
          /\ UNCHANGED exc
       \/ /\ \E e \in AwaitErrors :
                /\ exc' = [exc EXCEPT ![i] = e]
                /\ log' = Failed(i, "s_open_failed", e)
          /\ pc' = [pc EXCEPT ![i] = "exit_transport"]
          /\ UNCHANGED <<sid, sessions>>
    /\ UNCHANGED <<polling, config, lib_timeout, kind, tid, arg, ret, ncalls, last, scen, outcome, transports, health>>

\* await session.initialize(); then scenario_func(session) is called.
Initialized(objs, id) ==
    {IF o.id = id THEN [o EXCEPT !.initialized = TRUE] ELSE o : o \in objs}

Initialize_unchecked(i) ==
    /\ pc[i] = "initialize"
    /\ \/ sessions' = Initialized(sessions, sid[i])
       \/ UNCHANGED sessions
    /\ arg' = [arg EXCEPT ![i] = sid[i]]
    /\ pc' = [pc EXCEPT ![i] = "scenario"]
    /\ log' = Logged(i, IF Obj(sessions', sid[i]).initialized THEN "initialized"
                                                              ELSE "init_failed")
    /\ UNCHANGED <<polling, config, lib_timeout, kind, tid, sid, exc, ret, ncalls, last, scen, outcome,
                   transports, health>>

Initialize_cancel_leaks(i) ==
    /\ pc[i] = "initialize"
    /\ \/ /\ sessions' = Initialized(sessions, sid[i])
          /\ arg' = [arg EXCEPT ![i] = sid[i]]
          /\ pc' = [pc EXCEPT ![i] = "scenario"]
          /\ log' = Logged(i, "initialized")
          /\ UNCHANGED <<exc, outcome>>
       \/ /\ \E e \in InitErrors :
                /\ exc' = [exc EXCEPT ![i] = e]
                /\ log' = Failed(i, "init_failed", e)
                /\ IF e = "CancelledError"
                   THEN /\ pc' = [pc EXCEPT ![i] = "done"]
                        /\ outcome' = [outcome EXCEPT ![i] = Result(e, ret[i])]
                   ELSE /\ pc' = [pc EXCEPT ![i] = "exit_session"]
                        /\ UNCHANGED outcome
          /\ UNCHANGED <<arg, sessions>>
    /\ UNCHANGED <<polling, config, lib_timeout, kind, tid, sid, ret, ncalls, last, scen, transports, health>>

Initialize(i) ==
    /\ pc[i] = "initialize"
    /\ \/ /\ sessions' = Initialized(sessions, sid[i])
          /\ arg' = [arg EXCEPT ![i] = sid[i]]
          /\ pc' = [pc EXCEPT ![i] = "scenario"]
          /\ log' = Logged(i, "initialized")
          /\ UNCHANGED exc
       \/ /\ \E e \in InitErrors :
                /\ exc' = [exc EXCEPT ![i] = e]
                /\ log' = Failed(i, "init_failed", e)
          /\ pc' = [pc EXCEPT ![i] = "exit_session"]
          /\ UNCHANGED <<arg, sessions>>
    /\ UNCHANGED <<polling, config, lib_timeout, kind, tid, sid, ret, ncalls, last, scen, outcome, transports, health>>

\* ------------------------------------------------- res = await scenario_func(session)
\* A caller-supplied scenario: any number of tool calls through the session
\* it was given, then a return or a raise.  A tool call answers with a
\* result (isError true or false: data either way) or raises.
ScenarioCallTool_raise_on_iserror(i) ==
    /\ pc[i] = "scenario"
    /\ kind[i] = "run_a_scenario"
    /\ scen[i] = "calling"
    /\ \/ /\ last' = [last EXCEPT ![i] = "ok"]
          /\ log' = [log EXCEPT ![i] = @ \o <<"call", "ok">>]
          /\ ncalls' = [ncalls EXCEPT ![i] = @ + 1]
          /\ scen' = [scen EXCEPT ![i] = "none"]
          /\ UNCHANGED <<pc, exc>>
       \/ /\ last' = [last EXCEPT ![i] = "isError"]
          /\ log' = [log EXCEPT ![i] = @ \o <<"call", "isError">>]
          /\ ncalls' = [ncalls EXCEPT ![i] = @ + 1]
          /\ exc' = [exc EXCEPT ![i] = "ToolInvocationError"]
          /\ scen' = [scen EXCEPT ![i] = "raised"]
          /\ pc' = [pc EXCEPT ![i] = "exit_session"]
       \/ /\ \E e \in AwaitErrors :
                /\ exc' = [exc EXCEPT ![i] = e]
                /\ log' = Failed(i, "call_failed", e)
          /\ scen' = [scen EXCEPT ![i] = "raised"]
          /\ pc' = [pc EXCEPT ![i] = "exit_session"]
          /\ UNCHANGED <<ncalls, last>>
    /\ UNCHANGED <<polling, config, lib_timeout, kind, tid, sid, arg, ret, outcome, transports, sessions, health>>

\* res = await session.call_tool(...): the request goes out and the
\* scenario is suspended until the answer arrives.
ScenarioSendCall_nowait(i) ==
    /\ pc[i] = "scenario"
    /\ kind[i] = "run_a_scenario"
    /\ scen[i] \in {"none", "calling"}
    /\ Cardinality({n \in 1..Len(log[i]) : log[i][n] = "call_sent"}) < MaxToolCalls
    /\ scen' = [scen EXCEPT ![i] = "calling"]
    /\ log' = Logged(i, "call_sent")
    /\ UNCHANGED <<polling, config, lib_timeout, pc, kind, tid, sid, arg, exc, ret, ncalls, last, outcome,
                   transports, sessions, health>>

ScenarioSendCall(i) ==
    /\ pc[i] = "scenario"
    /\ kind[i] = "run_a_scenario"
    /\ scen[i] = "none"
    /\ ncalls[i] < MaxToolCalls
    /\ scen' = [scen EXCEPT ![i] = "calling"]
    /\ log' = Logged(i, "call_sent")
    /\ UNCHANGED <<polling, config, lib_timeout, pc, kind, tid, sid, arg, exc, ret, ncalls, last, outcome,
                   transports, sessions, health>>

\* The answer arrives (a result, isError true or false), or the await raises.
ScenarioCallTool(i) ==
    /\ pc[i] = "scenario"
    /\ kind[i] = "run_a_scenario"
    /\ scen[i] = "calling"
    /\ \/ /\ \E isError \in BOOLEAN :
                /\ last' = [last EXCEPT ![i] = IF isError THEN "isError" ELSE "ok"]
                /\ log' = [log EXCEPT ![i] = @ \o <<"call", IF isError THEN "isError" ELSE "ok">>]
          /\ ncalls' = [ncalls EXCEPT ![i] = @ + 1]
          /\ scen' = [scen EXCEPT ![i] = "none"]
          /\ UNCHANGED <<pc, exc>>
       \/ /\ \E e \in AwaitErrors :
                /\ exc' = [exc EXCEPT ![i] = e]
                /\ log' = Failed(i, "call_failed", e)
          /\ scen' = [scen EXCEPT ![i] = "raised"]
          /\ pc' = [pc EXCEPT ![i] = "exit_session"]
          /\ UNCHANGED <<ncalls, last>>
    /\ UNCHANGED <<polling, config, lib_timeout, kind, tid, sid, arg, ret, outcome, transports, sessions, health>>

\* The scenario returns v: res = v, then `return res` leaves both blocks.
ScenarioReturn(i) ==
    /\ pc[i] = "scenario"
    /\ kind[i] = "run_a_scenario"
    /\ scen[i] = "none"
    /\ \E v \in ScenarioValues : ret' = [ret EXCEPT ![i] = v]
    /\ scen' = [scen EXCEPT ![i] = "returned"]
    /\ pc' = [pc EXCEPT ![i] = "exit_session"]
    /\ log' = Logged(i, "scenario_returned")
    /\ UNCHANGED <<polling, config, lib_timeout, kind, tid, sid, arg, exc, ncalls, last, outcome,
                   transports, sessions, health>>

\* The scenario raises (a failed assert, an error of its own).
ScenarioRaise(i) ==
    /\ pc[i] = "scenario"
    /\ kind[i] = "run_a_scenario"
    /\ scen[i] = "none"
    /\ exc' = [exc EXCEPT ![i] = "ScenarioError"]
    /\ scen' = [scen EXCEPT ![i] = "raised"]
    /\ pc' = [pc EXCEPT ![i] = "exit_session"]
    /\ log' = Logged(i, "scenario_raised")
    /\ UNCHANGED <<polling, config, lib_timeout, kind, tid, sid, arg, ret, ncalls, last, outcome,
                   transports, sessions, health>>

\* get_tools' own scenario: tools = await session.list_tools(); return tools.tools
Listed(objs, id, tools) ==
    {IF o.id = id THEN [o EXCEPT !.listed = tools] ELSE o : o \in objs}

GetToolsScenario_reversed(i) ==
    /\ pc[i] = "scenario"
    /\ kind[i] = "get_tools"
    /\ \/ /\ \E tools \in ServerTools :
                /\ sessions' = Listed(sessions, sid[i], tools)
                /\ ret' = [ret EXCEPT ![i] =
                              PyList([n \in 1..Len(tools) |-> tools[Len(tools) + 1 - n]])]
          /\ ncalls' = [ncalls EXCEPT ![i] = @ + 1]
          /\ last' = [last EXCEPT ![i] = "ok"]
          /\ scen' = [scen EXCEPT ![i] = "returned"]
          /\ log' = [log EXCEPT ![i] = @ \o <<"call", "scenario_returned">>]
          /\ UNCHANGED exc
       \/ /\ \E e \in AwaitErrors :
                /\ exc' = [exc EXCEPT ![i] = e]
                /\ log' = Failed(i, "call_failed", e)
          /\ scen' = [scen EXCEPT ![i] = "raised"]
          /\ UNCHANGED <<ret, ncalls, last, sessions>>
    /\ pc' = [pc EXCEPT ![i] = "exit_session"]
    /\ UNCHANGED <<polling, config, lib_timeout, kind, tid, sid, arg, outcome, transports, health>>

GetToolsScenario(i) ==
    /\ pc[i] = "scenario"
    /\ kind[i] = "get_tools"
    /\ \/ /\ \E tools \in ServerTools :
                /\ sessions' = Listed(sessions, sid[i], tools)
                /\ ret' = [ret EXCEPT ![i] = PyList(tools)]
          /\ ncalls' = [ncalls EXCEPT ![i] = @ + 1]
          /\ last' = [last EXCEPT ![i] = "ok"]
          /\ scen' = [scen EXCEPT ![i] = "returned"]
          /\ log' = [log EXCEPT ![i] = @ \o <<"call", "scenario_returned">>]
          /\ UNCHANGED exc
       \/ /\ \E e \in AwaitErrors :
                /\ exc' = [exc EXCEPT ![i] = e]
                /\ log' = Failed(i, "call_failed", e)
          /\ scen' = [scen EXCEPT ![i] = "raised"]
          /\ UNCHANGED <<ret, ncalls, last, sessions>>
    /\ pc' = [pc EXCEPT ![i] = "exit_session"]
    /\ UNCHANGED <<polling, config, lib_timeout, kind, tid, sid, arg, outcome, transports, health>>

\* ------------------------------------------------------ leaving the blocks
\* Leaving `async with ClientSession(...)`: the session's __aexit__ is
\* awaited, on a return and on an exception alike.
ExitSession_skip(i) ==
    /\ pc[i] = "exit_session"
    /\ pc' = [pc EXCEPT ![i] = "exit_transport"]
    /\ UNCHANGED <<polling, config, lib_timeout, kind, tid, sid, arg, exc, ret, ncalls, last, scen, outcome, log,
                   transports, sessions, health>>

ExitSession_reversed(i) ==
    /\ pc[i] = "exit_session"
    /\ transports' = Closed(transports, tid[i])
    /\ sessions' = Closed(sessions, sid[i])
    /\ outcome' = [outcome EXCEPT ![i] = Result(exc[i], ret[i])]
    /\ pc' = [pc EXCEPT ![i] = "done"]
    /\ log' = [log EXCEPT ![i] = @ \o <<"t_close", "s_close">>]
    /\ UNCHANGED <<polling, config, lib_timeout, kind, tid, sid, arg, exc, ret, ncalls, last, scen, health>>

ExitSession_transport_first(i) ==
    /\ pc[i] = "exit_session"
    /\ transports' = Closed(transports, tid[i])
    /\ log' = Logged(i, "t_close")
    /\ pc' = [pc EXCEPT ![i] = "exit_transport"]
    /\ UNCHANGED <<polling, config, lib_timeout, kind, tid, sid, arg, exc, ret, ncalls, last, scen,
                   outcome, sessions, health>>

ExitSession(i) ==
    /\ pc[i] = "exit_session"
    /\ sessions' = Closed(sessions, sid[i])
    /\ \E r \in {NoExc} \cup ExitErrors :
          /\ exc' = [exc EXCEPT ![i] = AfterExit(exc[i], r)]
          /\ log' = Logged(i, IF r = NoExc THEN "s_close" ELSE "s_close_raised")
    /\ pc' = [pc EXCEPT ![i] = "exit_transport"]
    /\ UNCHANGED <<polling, config, lib_timeout, kind, tid, sid, arg, ret, ncalls, last, scen, outcome,
                   transports, health>>

\* Leaving `async with self.get_client()`: the transport's __aexit__ is
\* awaited, then the coroutine returns or raises to its caller.
ExitTransport(i) ==
    /\ pc[i] = "exit_transport"
    /\ transports' = Closed(transports, tid[i])
    /\ \E r \in {NoExc} \cup ExitErrors :
          /\ exc' = [exc EXCEPT ![i] = AfterExit(exc[i], r)]
          /\ outcome' = [outcome EXCEPT ![i] = Result(AfterExit(exc[i], r), ret[i])]
          /\ log' = Logged(i, IF r = NoExc THEN "t_close" ELSE "t_close_raised")
    /\ pc' = [pc EXCEPT ![i] = "done"]
    /\ UNCHANGED <<polling, config, lib_timeout, kind, tid, sid, arg, ret, ncalls, last, scen, sessions, health>>

\* ---------------------------------------------------------- health_check
\* with self.create_httpx_client_with_ssl(headers=self.headers, async_client=False)
\*     as client: response = client.get(f"{base_url}/api/v1/health"); return response
\* The server answers with some status and body, or the request raises;
\* the `with` block closes the client on both paths.
HealthUrl == base_url \o "/api/v1/health"

HealthCall_leak_on_error(answer) ==
    [ client |-> create_httpx_client_with_ssl(headers, NoneType, NoneType, FALSE),
      method |-> "GET",
      url |-> HealthUrl,
      sent_headers |-> headers,
      requests |-> 1,
      closed |-> (answer.kind = "response"),
      answer |-> answer,
      result |-> answer ]

HealthCall_retry(answer) ==
    [ client |-> create_httpx_client_with_ssl(headers, NoneType, NoneType, FALSE),
      method |-> "GET",
      url |-> HealthUrl,
      sent_headers |-> headers,
      requests |-> IF answer.kind = "response" /\ answer.status = 200 THEN 1 ELSE 2,
      closed |-> TRUE,
      answer |-> answer,
      result |-> answer ]

HealthCall(answer) ==
    [ client |-> create_httpx_client_with_ssl(headers, NoneType, NoneType, FALSE),
      method |-> "GET",
      url |-> HealthUrl,
      sent_headers |-> headers,
      requests |-> 1,
      closed |-> TRUE,
      answer |-> answer,
      result |-> answer ]

HealthAnswers ==
    { [kind |-> "response", status |-> 200, body |-> "ok"],
      [kind |-> "response", status |-> 503, body |-> "down"],
      [kind |-> "raise", status |-> 0, body |-> "TransportError"] }

health_check_adds_header ==
    /\ Len(health) < MaxHealth
    /\ \E a \in HealthAnswers : health' = Append(health, HealthCall(a))
    /\ headers' = [Authorization |-> headers.Authorization, Accept |-> "application/json"]
    /\ UNCHANGED <<polling, base_url, api_key, category, verify_tls, lib_timeout, frames,
                   transports, sessions>>

health_check ==
    /\ Len(health) < MaxHealth
    /\ \E a \in HealthAnswers : health' = Append(health, HealthCall(a))
    /\ UNCHANGED <<polling, config, lib_timeout, frames, transports, sessions>>

\* ------------------------------------------------------------------ Next
Next ==
    \/ \E i \in Calls : Start(i)
    \/ \E i \in Calls : EnterTransport(i)
    \/ \E i \in Calls : EnterSession(i)
    \/ \E i \in Calls : Initialize(i)
    \/ \E i \in Calls : ScenarioSendCall(i)
    \/ \E i \in Calls : ScenarioCallTool(i)
    \/ \E i \in Calls : ScenarioReturn(i)
    \/ \E i \in Calls : ScenarioRaise(i)
    \/ \E i \in Calls : GetToolsScenario(i)
    \/ \E i \in Calls : ExitSession(i)
    \/ \E i \in Calls : ExitTransport(i)
    \/ health_check

Spec == Init /\ [][Next]_vars

\* The client used for one invocation at a time, under every configuration.
NextSingle ==
    \/ Start(1)
    \/ EnterTransport(1)
    \/ EnterSession(1)
    \/ Initialize(1)
    \/ ScenarioSendCall(1)
    \/ ScenarioCallTool(1)
    \/ ScenarioReturn(1)
    \/ ScenarioRaise(1)
    \/ GetToolsScenario(1)
    \/ ExitSession(1)
    \/ ExitTransport(1)
    \/ health_check

SpecSingle == InitAny /\ [][NextSingle]_vars

\* One step of invocation i, whichever it is.
CallStep(i) ==
    \/ EnterTransport(i) \/ EnterSession(i) \/ Initialize(i)
    \/ ScenarioSendCall(i) \/ ScenarioCallTool(i)
    \/ ScenarioReturn(i) \/ ScenarioRaise(i) \/ GetToolsScenario(i)
    \/ ExitSession(i) \/ ExitTransport(i)

\* The caller assigns new values to the public attributes base_url and
\* category between two invocations (one has finished, nothing is in
\* flight, another is still to be made), then goes on using the same client
\* object; invocations are made one after the other.
Reconfigure ==
    /\ \A i \in Calls : pc[i] \in {"idle", "done"}
    /\ \E i, j \in Calls : pc[i] = "done" /\ pc[j] = "idle"
    /\ \E cfg \in Configs :
          /\ <<cfg[1], cfg[3]>> # <<base_url, category>>
          /\ base_url' = cfg[1]
          /\ category' = cfg[3]
    /\ UNCHANGED <<polling, api_key, verify_tls, headers, lib_timeout, frames, transports,
                   sessions, health>>

SeqStep(i) ==
    /\ \A j \in Calls \ {i} : pc[j] \in {"idle", "done"}
    /\ Start(i) \/ CallStep(i)

NextReconfig ==
    \/ \E i \in Calls : SeqStep(i)
    \/ Reconfigure

SpecReconfig == Init /\ [][NextReconfig]_vars

\* ------------------------------------------- the job-status polling loop
\* The loop of the job-management scenario (test_mcpserver.py):
\*     job_complete = False; max_attempts = 60; attempts = 0
\*     while not job_complete and attempts < max_attempts:
\*         res = await session.call_tool("controller.jobs_read", ...)
\*         assert not res.isError; assert res.content ...
\*         if o["status"] == "successful": job_complete = True; assert o["job_template"] == ...
\*         else: attempts += 1; await asyncio.sleep(3)
\*     assert job_complete
\*     res = await session.call_tool("controller.jobs_stdout_read", ...)
\* poll_pc is the statement the scenario is at; polls counts the jobs_read
\* calls made.
max_attempts == 60

JobStatuses == {"successful", "running", "pending", "failed"}
PollEnded == {"poll_raised", "poll_assert_failed", "timed_out", "output_read"}
client_state == <<config, lib_timeout, frames, transports, sessions, health>>

PollWhile_nocap ==
    /\ poll_pc = "while"
    /\ poll_pc' = IF ~job_complete THEN "jobs_read" ELSE "assert_complete"
    /\ UNCHANGED <<attempts, job_complete, polls, client_state>>

PollWhile ==
    /\ poll_pc = "while"
    /\ poll_pc' = IF ~job_complete /\ attempts < max_attempts THEN "jobs_read"
                                                              ELSE "assert_complete"
    /\ UNCHANGED <<attempts, job_complete, polls, client_state>>

\* One poll: the call raises, or answers a result that fails an assert
\* (isError, no content), or answers the job with some status.
PollJobsRead ==
    /\ poll_pc = "jobs_read"
    /\ polls' = polls + 1
    /\ \/ /\ poll_pc' = "poll_raised"
          /\ UNCHANGED <<attempts, job_complete>>
       \/ /\ poll_pc' = "poll_assert_failed"
          /\ UNCHANGED <<attempts, job_complete>>
       \/ \E status \in JobStatuses, template_matches \in BOOLEAN :
             IF status = "successful"
             THEN /\ job_complete' = TRUE
                  /\ poll_pc' = IF template_matches THEN "while" ELSE "poll_assert_failed"
                  /\ UNCHANGED attempts
             ELSE /\ attempts' = attempts + 1
                  /\ poll_pc' = "sleep"
                  /\ UNCHANGED job_complete
    /\ UNCHANGED client_state

\* await asyncio.sleep(3): returns, or a cancellation is delivered.
PollSleep ==
    /\ poll_pc = "sleep"
    /\ poll_pc' \in {"while", "poll_raised"}
    /\ UNCHANGED <<attempts, job_complete, polls, client_state>>

\* assert job_complete, "Job did not complete within timeout ..."
PollAssertComplete ==
    /\ poll_pc = "assert_complete"
    /\ poll_pc' = IF job_complete THEN "stdout_read" ELSE "timed_out"
    /\ UNCHANGED <<attempts, job_complete, polls, client_state>>

\* res = await session.call_tool("controller.jobs_stdout_read", ...)
PollStdoutRead ==
    /\ poll_pc = "stdout_read"
    /\ poll_pc' \in {"output_read", "poll_raised"}
    /\ UNCHANGED <<attempts, job_complete, polls, client_state>>

NextPoll ==
    \/ PollWhile
    \/ PollJobsRead
    \/ PollSleep
    \/ PollAssertComplete
    \/ PollStdoutRead

\* Every await of the loop eventually returns or raises.
SpecPoll == Init /\ [][NextPoll]_vars /\ WF_vars(NextPoll)

\* ------------------------------------------------------------ histories
Done(i) == pc[i] = "done"
InFlight(i) == pc[i] \notin {"idle", "done"}
Has(i, ev) == \E n \in 1..Len(log[i]) : log[i][n] = ev
Count(i, evs) == Cardinality({n \in 1..Len(log[i]) : log[i][n] \in evs})
First(i, evs) == CHOOSE n \in 1..Len(log[i]) : log[i][n] \in evs /\ \A m \in 1..(n-1) : log[i][m] \notin evs
TransportsOf(i) == {t \in transports : t.owner = i}
SessionsOf(i) == {s \in sessions : s.owner = i}
TOpen == {"t_open"}
TClose == {"t_close", "t_close_raised"}
SOpen == {"s_open"}
SClose == {"s_close", "s_close_raised"}
ScenarioRan(i) == scen[i] # "none"

\* C1: once run_a_scenario has returned or raised, every transport and every
\* session it opened has been closed exactly once and none is left open; it
\* opened at most one of each, and exactly one of each (open count = close
\* count = 1) whenever the scenario ran, whether it returned or raised.
C1_OpenedAndClosedExactlyOnce ==
    /\ \A t \in transports : t.closes <= 1
    /\ \A s \in sessions : s.closes <= 1
    /\ \A i \in Calls : Done(i) =>
          /\ \A t \in TransportsOf(i) : ~t.open /\ t.closes = 1
          /\ \A s \in SessionsOf(i) : ~s.open /\ s.closes = 1
          /\ Cardinality(TransportsOf(i)) = Count(i, TOpen)
          /\ Cardinality(SessionsOf(i)) = Count(i, SOpen)
          /\ Count(i, TOpen) = Count(i, TClose) /\ Count(i, TOpen) <= 1
          /\ Count(i, SOpen) = Count(i, SClose) /\ Count(i, SOpen) <= 1
          /\ ScenarioRan(i) => Count(i, TOpen) = 1 /\ Count(i, SOpen) = 1

C1_Witness ==
    \E i \in Calls : Done(i) /\ Has(i, "scenario_raised") /\ outcome[i].kind = "raise"
                     /\ Cardinality(SessionsOf(i)) = 1

\* C2: when the scenario raises after at least one successful tool call,
\* the session and the connection are closed and the caller observes exactly
\* the scenario's error (not a cleanup error, not a normal return).
C2_ScenarioErrorReachesCaller ==
    \A i \in Calls : (Done(i) /\ Has(i, "scenario_raised") /\ ncalls[i] >= 1) =>
        /\ \A s \in SessionsOf(i) : ~s.open
        /\ \A t \in TransportsOf(i) : ~t.open
        /\ outcome[i] = [kind |-> "raise", value |-> <<"ScenarioError">>]

\* C3: the scenario function is invoked, and a tool call issued, only on a
\* session whose initialize() has completed; when opening the transport,
\* opening the session or initialize() fails the scenario is never invoked.
C3_InitializedBeforeScenario ==
    \A i \in Calls :
        /\ (arg[i] # NoObj \/ ScenarioRan(i) \/ pc[i] = "scenario" \/ ncalls[i] > 0) =>
              /\ arg[i] = sid[i] /\ sid[i] # NoObj
              /\ Obj(sessions, sid[i]).initialized
              /\ Has(i, "initialized")
              /\ \A n \in 1..Len(log[i]) :
                    log[i][n] \in {"call_sent", "call", "call_failed", "scenario_returned", "scenario_raised"}
                        => First(i, {"initialized"}) < n
        /\ (Has(i, "t_open_failed") \/ Has(i, "s_open_failed") \/ Has(i, "init_failed")) =>
              /\ arg[i] = NoObj /\ ~ScenarioRan(i) /\ ncalls[i] = 0 /\ pc[i] # "scenario"
              /\ Count(i, {"call_sent", "call", "call_failed", "scenario_returned", "scenario_raised"}) = 0

C3_Witness ==
    \E i \in Calls : Done(i) /\ Has(i, "initialized") /\ Has(i, "call")
                     /\ Has(i, "scenario_returned")

\* C4: on every exit path (return, exception, cancellation) the session is
\* closed first and the transport second, both before control is back with
\* the caller.
C4_SessionClosedBeforeTransport ==
    \A i \in Calls :
        /\ Count(i, TClose) > 0 =>
              (Count(i, SOpen) > 0 =>
                  Count(i, SClose) > 0 /\ First(i, SClose) < First(i, TClose))
        /\ Done(i) =>
              /\ Count(i, TOpen) > 0 => Count(i, TClose) > 0
              /\ Count(i, SOpen) > 0 =>
                    /\ Count(i, SClose) > 0 /\ Count(i, TClose) > 0
                    /\ First(i, SClose) < First(i, TClose)
        /\ outcome[i].kind # "pending" => Done(i)

C4_Witness ==
    \E i \in Calls : /\ Done(i) /\ outcome[i].value = <<"CancelledError">>
                     /\ Has(i, "call_failed")
                     /\ Count(i, SClose) = 1 /\ Count(i, TClose) = 1

\* C5: a session belongs to the one invocation that created it and is open
\* only while that invocation is in progress; a finished invocation leaves no
\* session open, two invocations never hold the same session, and the session
\* handed to a scenario is the one its own invocation created.
C5_SessionPerInvocation ==
    /\ \A s \in sessions :
          /\ s.open => InFlight(s.owner) /\ sid[s.owner] = s.id
          /\ Done(s.owner) => ~s.open
    /\ \A i \in Calls :
          /\ sid[i] # NoObj => \E s \in SessionsOf(i) : s.id = sid[i]
          /\ arg[i] # NoObj => \E s \in SessionsOf(i) : s.id = arg[i]
          /\ Cardinality(SessionsOf(i)) <= 1
          /\ \A j \in Calls : (i # j /\ sid[i] # NoObj) => sid[i] # sid[j] /\ arg[j] # sid[i]

C5_Witness ==
    \E i, j \in Calls :
        /\ i # j /\ Done(i) /\ sid[i] # NoObj /\ ScenarioRan(i)
        /\ pc[j] = "scenario" /\ arg[j] # NoObj /\ Count(j, {"call"}) > 0

\* C6: invocations interleave freely.  In every state, each invocation in
\* flight can take its next step whatever the others are doing (no lock); the
\* transport and session an invocation holds are its own, are open exactly
\* while it is between opening and closing them, and are closed by it exactly
\* once; and a step of one invocation changes neither the configuration nor
\* anything belonging to another invocation.
C6_StateInv ==
    \A i \in Calls :
        /\ InFlight(i) => ENABLED CallStep(i)
        /\ tid[i] # NoObj => \E t \in TransportsOf(i) : t.id = tid[i]
        /\ sid[i] # NoObj => \E s \in SessionsOf(i) : s.id = sid[i]
        /\ \A t \in TransportsOf(i) :
              /\ t.id = tid[i]
              /\ t.open <=> pc[i] \in {"enter_session", "initialize", "scenario",
                                        "exit_session", "exit_transport"}
              /\ t.closes = IF Done(i) THEN 1 ELSE 0
        /\ \A s \in SessionsOf(i) :
              /\ s.id = sid[i]
              /\ s.transport = tid[i]
              /\ s.open <=> pc[i] \in {"initialize", "scenario", "exit_session"}
              /\ s.closes = IF pc[i] \in {"exit_transport", "done"} THEN 1 ELSE 0

FrameOf(j) ==
    <<pc[j], kind[j], tid[j], sid[j], arg[j], exc[j], ret[j], ncalls[j], last[j],
      scen[j], outcome[j], log[j]>>

C6_StepFrame ==
    \A i \in Calls : log'[i] # log[i] =>
        /\ config' = config
        /\ \A j \in Calls \ {i} :
              /\ FrameOf(j)' = FrameOf(j)
              /\ {t \in transports' : t.owner = j} = TransportsOf(j)
              /\ {s \in sessions' : s.owner = j} = SessionsOf(j)

C6_IndependentInvocations == [](C6_StateInv) /\ [][C6_StepFrame]_vars

C6_Witness ==
    \E i, j \in Calls :
        /\ i # j /\ pc[i] = "scenario" /\ pc[j] = "scenario"
        /\ sid[i] # sid[j] /\ tid[i] # tid[j]
        /\ Obj(sessions, sid[i]).open /\ Obj(sessions, sid[j]).open

\* C7 as claimed: whenever the scenario returned a value, run_a_scenario
\* returns exactly that value.
C7_AlwaysReturnsScenarioValue ==
    \A i \in Calls : (Done(i) /\ scen[i] = "returned") =>
        outcome[i] = [kind |-> "return", value |-> ret[i]]

\* C7 amended: when the scenario returned a value and neither close raised,
\* run_a_scenario returns exactly that value (None included); when a close
\* raised, that error reaches the caller instead; and run_a_scenario never
\* returns anything but the value its scenario returned.
C7_ReturnsScenarioValue ==
    \A i \in Calls :
        /\ (Done(i) /\ Has(i, "scenario_returned")) =>
              /\ Has(i, "s_close") /\ Has(i, "t_close") =>
                    outcome[i] = [kind |-> "return", value |-> ret[i]]
              /\ Has(i, "s_close_raised") \/ Has(i, "t_close_raised") =>
                    outcome[i] = [kind |-> "raise", value |-> <<"CleanupError">>]
        /\ outcome[i].kind = "return" =>
              /\ Has(i, "scenario_returned") /\ outcome[i].value = ret[i]
              /\ Count(i, SClose) = 1 /\ Count(i, TClose) = 1

C7_Witness ==
    \E i \in Calls : /\ kind[i] = "run_a_scenario" /\ Has(i, "scenario_returned")
                     /\ outcome[i] = [kind |-> "return", value |-> PyNone]

\* C8 as claimed: the endpoint is base_url + "/mcp" when the category is None
\* and base_url + "/" + category + "/mcp" for every category that is not None.
C8_EndpointForEveryCategory ==
    \A t \in transports :
        t.url = IF category = NoneType
                THEN base_url \o "/mcp"
                ELSE base_url \o "/" \o category[1] \o "/mcp"

\* C8 amended: the endpoint is base_url + "/" + category + "/mcp" when the
\* category is a non-empty string, and base_url + "/mcp" when it is None or
\* the empty string.
C8_EndpointOfGetClient ==
    \A t \in transports :
        t.url = IF category = NoneType \/ category = Some("")
                THEN base_url \o "/mcp"
                ELSE base_url \o "/" \o category[1] \o "/mcp"

C8_Witness ==
    \E t \in transports :
        /\ category = Some("job_management")
        /\ base_url = "https://h"
        /\ t.url = "https://h/job_management/mcp"

\* C9: the Authorization header is "Bearer " + api_key from construction on,
\* and the streaming transport of every invocation and the request of every
\* health check carry exactly that header, whatever calls were made before.
C9_BearerHeaderEverywhere ==
    /\ headers = [Authorization |-> "Bearer " \o api_key]
    /\ \A t \in transports : t.headers = [Authorization |-> "Bearer " \o api_key]
    /\ \A h \in 1..Len(health) :
          /\ health[h].sent_headers = [Authorization |-> "Bearer " \o api_key]
          /\ health[h].client.headers = [Authorization |-> "Bearer " \o api_key]

C9_Witness ==
    /\ Len(health) > 0 /\ health[1].sent_headers.Authorization = "Bearer t0"
    /\ \E i, j \in Calls : i # j /\ Done(i) /\ tid[i] # NoObj /\ tid[j] # NoObj
                           /\ Obj(transports, tid[j]).headers.Authorization = "Bearer t0"

\* C10: a health check uses a synchronous httpx client, sends one GET with
\* the Authorization header to base_url + "/api/v1/health", and has closed
\* that client when it returns and when it raises; it opens no streaming
\* transport and no session and touches none that is open.
C10_HealthInv ==
    \A h \in 1..Len(health) :
        /\ ~health[h].client.async
        /\ health[h].method = "GET"
        /\ health[h].requests = 1
        /\ health[h].url = base_url \o "/api/v1/health"
        /\ health[h].sent_headers.Authorization = "Bearer " \o api_key
        /\ health[h].closed

C10_HealthStep ==
    health' # health => transports' = transports /\ sessions' = sessions /\ frames' = frames

C10_HealthCheckPlainAndClosed == [](C10_HealthInv) /\ [][C10_HealthStep]_vars

C10_Witness ==
    /\ Len(health) > 0 /\ health[1].result.kind = "raise" /\ health[1].closed
    /\ \E s \in sessions : s.open

\* C11: health_check hands its caller exactly what the server answered
\* (status and body, whatever the status code) or the error the request
\* raised, and sends exactly one request per call: an answer other than 200
\* and a failed request are not followed by a second request.
C11_HealthInv ==
    \A h \in 1..Len(health) :
        /\ health[h].result = health[h].answer
        /\ health[h].answer \in HealthAnswers
        /\ health[h].requests = 1

C11_HealthStep ==
    health' # health =>
        /\ Len(health') = Len(health) + 1
        /\ SubSeq(health', 1, Len(health)) = health

VerifyAsConfigured(client) ==
    IF verify_tls
    THEN ~client.verify_given
    ELSE /\ client.verify_given
         /\ ~client.verify.check_hostname
         /\ client.verify.verify_mode = "CERT_NONE"

C12_VerifyFollowsVerifyTls ==
    /\ \A t \in transports : t.client.async /\ VerifyAsConfigured(t.client)
    /\ \A h \in 1..Len(health) : ~health[h].client.async /\ VerifyAsConfigured(health[h].client)

C12_Witness ==
    /\ ~verify_tls
    /\ \E t \in transports : t.open /\ t.client.verify.verify_mode = "CERT_NONE"
    /\ \E h \in 1..Len(health) : ~health[h].client.verify.check_hostname

C12_WitnessVerifying ==
    /\ verify_tls
    /\ \E t \in transports : ~t.client.verify_given
    /\ \E h \in 1..Len(health) : ~health[h].client.verify_given

\* C13: constructing the client with an empty server address or an empty
\* credential fails, so no client object whose base_url or api_key is empty
\* ever exists, and none is ever used to open a transport or to send a
\* health request.
C13_NoClientWithEmptyAddressOrCredential ==
    /\ base_url # "" /\ api_key # ""
    /\ \A t \in transports : t.url \notin {"/mcp", "/x/mcp", "/job_management/mcp"}
                              /\ t.headers.Authorization # "Bearer "
    /\ \A h \in 1..Len(health) : health[h].url # "/api/v1/health"
                                  /\ health[h].sent_headers.Authorization # "Bearer "

\* C15: when opening the transport, opening the session, initialize() or a
\* tool call fails with a transport-level error, everything the invocation
\* had opened is closed and the caller then observes that TransportError;
\* a health check whose request fails has closed its client and raises the
\* TransportError.
C15_TransportErrorReachesCaller ==
    /\ \A i \in Calls : (Done(i) /\ Has(i, "TransportError")) =>
          /\ \A s \in SessionsOf(i) : ~s.open /\ s.closes = 1
          /\ \A t \in TransportsOf(i) : ~t.open /\ t.closes = 1
          /\ outcome[i] = [kind |-> "raise", value |-> <<"TransportError">>]
    /\ \A h \in 1..Len(health) : health[h].answer.kind = "raise" =>
          /\ health[h].closed
          /\ health[h].result = [kind |-> "raise", status |-> 0, body |-> "TransportError"]

\* C16: once an invocation has been cancelled (a CancelledError raised by
\* the await it was suspended in: opening the session, initialize(), a tool
\* call), it is on its way out through the closes, which it can always take;
\* when it is done, the session and the transport it had opened are closed
\* (each exactly once) and none is left open.
C16_CancellationStillCloses ==
    \A i \in Calls : Has(i, "CancelledError") =>
        /\ pc[i] \in {"exit_session", "exit_transport", "done"}
        /\ pc[i] = "exit_session" => ENABLED ExitSession(i)
        /\ pc[i] = "exit_transport" =>
              /\ ENABLED ExitTransport(i)
              /\ \A s \in SessionsOf(i) : ~s.open
        /\ Done(i) =>
              /\ \A s \in SessionsOf(i) : ~s.open /\ s.closes = 1
              /\ \A t \in TransportsOf(i) : ~t.open /\ t.closes = 1
              /\ Count(i, SOpen) = Count(i, SClose)
              /\ Count(i, TOpen) = Count(i, TClose)
              /\ outcome[i].kind = "raise"

C16_Witness ==
    \E i \in Calls :
        /\ Done(i) /\ Has(i, "initialized") /\ Has(i, "call_failed") /\ Has(i, "CancelledError")
        /\ \E s \in SessionsOf(i) : ~s.open /\ s.closes = 1
        /\ \E t \in TransportsOf(i) : ~t.open /\ t.closes = 1

C16_WitnessDuringInitialize ==
    \E i \in Calls :
        /\ Done(i) /\ Has(i, "init_failed") /\ Has(i, "CancelledError")
        /\ \E s \in SessionsOf(i) : ~s.open /\ s.closes = 1
        /\ \E t \in TransportsOf(i) : ~t.open /\ t.closes = 1

\* C17: nothing is retried.  Within one invocation the transport is opened
\* at most once, the session at most once, initialize() is awaited at most
\* once and the scenario function is invoked (and ends) at most once, counting
\* failed attempts; after a failed step no further open, initialize or call
\* follows in that invocation.
OpenAttempts == {"t_open", "t_open_failed"}
SessionAttempts == {"s_open", "s_open_failed"}
InitAttempts == {"initialized", "init_failed"}
ScenarioEnds == {"scenario_returned", "scenario_raised", "call_failed"}
FailedSteps == {"t_open_failed", "s_open_failed", "init_failed", "call_failed"}

C17_NoRetries ==
    \A i \in Calls :
        /\ Count(i, {"start"}) <= 1
        /\ Count(i, OpenAttempts) <= 1 /\ Cardinality(TransportsOf(i)) <= 1
        /\ Count(i, SessionAttempts) <= 1 /\ Cardinality(SessionsOf(i)) <= 1
        /\ Count(i, InitAttempts) <= 1
        /\ Count(i, ScenarioEnds) <= 1
        /\ \A n \in 1..Len(log[i]) : log[i][n] \in FailedSteps =>
              \A m \in (n+1)..Len(log[i]) :
                  log[i][m] \notin OpenAttempts \cup SessionAttempts \cup InitAttempts
                                 \cup ScenarioEnds \cup {"call_sent", "call"}

C17_Witness ==
    \E i \in Calls : /\ Done(i) /\ Has(i, "init_failed") /\ Has(i, "TransportError")
                     /\ Count(i, OpenAttempts) = 1 /\ Count(i, InitAttempts) = 1

C17_WitnessOpenFailed ==
    \E i \in Calls : Done(i) /\ Has(i, "t_open_failed") /\ Count(i, OpenAttempts) = 1

\* C18: no operation (get_client inside an invocation, every step of
\* run_a_scenario and get_tools, health_check) changes base_url, api_key,
\* category, verify_tls or headers: they keep the values given at
\* construction, also while a session is open.
C18_ConfigStep ==
    /\ base_url' = base_url
    /\ api_key' = api_key
    /\ category' = category
    /\ verify_tls' = verify_tls
    /\ headers' = headers

C18_ConfigNeverChanges == [][C18_ConfigStep]_vars

C18_Witness ==
    /\ base_url = "https://h" /\ api_key = "t0" /\ category = Some("x") /\ verify_tls
    /\ headers = [Authorization |-> "Bearer t0"]
    /\ Len(health) > 0
    /\ \E i \in Calls : pc[i] = "scenario" /\ ncalls[i] > 0 /\ Obj(sessions, sid[i]).open

\* C19: get_tools is one pass through run_a_scenario (one transport, one
\* session, one initialize) whose scenario makes exactly one remote call,
\* list_tools; what get_tools returns is exactly the list the server answered
\* on that session, element for element in the server's order, and it does
\* return it when neither close raises; its session and transport are closed
\* exactly once, session first, however it ends.
C19_GetToolsReturnsServerList ==
    \A i \in Calls : kind[i] = "get_tools" =>
        /\ Count(i, OpenAttempts) <= 1 /\ Count(i, SessionAttempts) <= 1
        /\ Count(i, InitAttempts) <= 1
        /\ Count(i, {"call", "call_failed"}) <= 1 /\ ncalls[i] = Count(i, {"call"})
        /\ ScenarioRan(i) => Count(i, {"call", "call_failed"}) = 1
        /\ outcome[i].kind = "return" =>
              /\ ncalls[i] = 1
              /\ Obj(sessions, sid[i]).listed \in ServerTools
              /\ Len(outcome[i].value) = Len(Obj(sessions, sid[i]).listed) + 1
              /\ outcome[i].value[1] = "list"
              /\ \A n \in 1..Len(Obj(sessions, sid[i]).listed) :
                    outcome[i].value[n + 1] = Obj(sessions, sid[i]).listed[n]
        /\ (Done(i) /\ Has(i, "call") /\ Has(i, "s_close") /\ Has(i, "t_close")) =>
              outcome[i].kind = "return"
        /\ Done(i) =>
              /\ \A s \in SessionsOf(i) : ~s.open /\ s.closes = 1
              /\ \A t \in TransportsOf(i) : ~t.open /\ t.closes = 1
              /\ Count(i, SOpen) > 0 => First(i, SClose) < First(i, TClose)

C19_Witness ==
    \E i \in Calls :
        /\ kind[i] = "get_tools" /\ Done(i)
        /\ \E s \in SessionsOf(i) : s.listed = <<"a", "b", "c">> /\ s.closes = 1
        /\ outcome[i] = [kind |-> "return", value |-> <<"list", "a", "b", "c">>]

\* C20: a tool call answering isError = true is data.  The step in which the
\* answer arrives raises nothing and leaves the invocation where it was (the
\* scenario goes on and may still return or raise as it decides); when the
\* scenario then returns a value and no close raises, run_a_scenario returns
\* exactly that value; and an invocation that saw isError raises only when
\* the scenario raised, a later call failed or a close raised.
C20_StateInv ==
    \A i \in Calls : Has(i, "isError") =>
        /\ (pc[i] = "scenario" /\ scen[i] = "none") =>
              ENABLED ScenarioReturn(i) /\ ENABLED ScenarioRaise(i)
        /\ (Done(i) /\ Has(i, "scenario_returned") /\ Has(i, "s_close") /\ Has(i, "t_close")) =>
              outcome[i] = [kind |-> "return", value |-> ret[i]]
        /\ (exc[i] # NoExc \/ outcome[i].kind = "raise") =>
              \/ Has(i, "scenario_raised") \/ Has(i, "call_failed")
              \/ Has(i, "s_close_raised") \/ Has(i, "t_close_raised")

C20_Step ==
    \A i \in Calls :
        (Len(log'[i]) = Len(log[i]) + 2 /\ log'[i][Len(log'[i])] = "isError") =>
            /\ pc'[i] = pc[i] /\ exc'[i] = exc[i] /\ scen'[i] = "none"
            /\ ret'[i] = ret[i] /\ outcome'[i] = outcome[i]

C20_IsErrorIsData == [](C20_StateInv) /\ [][C20_Step]_vars

C20_Witness ==
    \E i \in Calls : /\ Done(i) /\ Has(i, "isError") /\ last[i] = "isError"
                     /\ outcome[i] = [kind |-> "return", value |-> PyStr("a")]

\* C21 as claimed: the timeout can be overridden per call for each of the
\* two operations: whenever a health check can be made it can be made with
\* a timeout other than 30 seconds, and whenever an invocation is about to
\* open its transport it can do so with a 30 second timeout and with another.
C21_TimeoutOverridablePerCall ==
    /\ Len(health) < MaxHealth =>
          ENABLED (health_check /\ health'[Len(health')].client.timeout # DefaultTimeout)
    /\ \A i \in Calls : pc[i] = "enter_transport" =>
          /\ ENABLED (EnterTransport(i) /\ \E t \in transports' :
                          t.owner = i /\ t.client.timeout = DefaultTimeout)
          /\ ENABLED (EnterTransport(i) /\ \E t \in transports' :
                          t.owner = i /\ t.client.timeout # DefaultTimeout)

\* C21 amended: every client is built with redirect-following on and with
\* the timeout handed to create_httpx_client_with_ssl, 30 seconds when none
\* is handed.  health_check hands none, so its client always has 30 seconds;
\* the transport of run_a_scenario / get_tools has the timeout the transport
\* library hands the factory, 30 seconds when it hands none.  Neither
\* operation takes a timeout from its caller.
C21_RedirectsAndTimeout ==
    /\ \A h \in 1..Len(health) :
          /\ health[h].client.follow_redirects
          /\ health[h].client.timeout = 30
    /\ \A t \in transports :
          /\ t.client.follow_redirects
          /\ t.client.timeout = IF lib_timeout = NoneType THEN 30 ELSE lib_timeout[1]
    /\ Len(health) < MaxHealth =>
          ~ENABLED (health_check /\ health'[Len(health')].client.timeout # 30)

C21_Witness ==
    /\ lib_timeout = Some(5)
    /\ \E t \in transports : t.client.timeout = 5 /\ t.client.follow_redirects
    /\ \E h \in 1..Len(health) : health[h].client.timeout = 30

C21_WitnessDefault ==
    /\ lib_timeout = NoneType
    /\ \E t \in transports : t.client.timeout = 30 /\ t.client.follow_redirects

\* C22: the endpoint is computed by each get_client call from base_url and
\* category as they are at that call: every transport opened in a step has
\* the endpoint of the configuration current in that step, whatever
\* endpoints earlier transports of the same client were opened with.
C22_Step ==
    \A t \in transports' \ transports :
        t.url = IF category = NoneType \/ category = Some("")
                THEN base_url \o "/mcp"
                ELSE base_url \o "/" \o category[1] \o "/mcp"

C22_EndpointRecomputed == [][C22_Step]_vars

C22_Witness ==
    /\ base_url = "http://s" /\ category = Some("job_management")
    /\ \E t1, t2 \in transports :
          /\ t1.owner = 1 /\ t1.url = "https://h/mcp"
          /\ t2.owner = 2 /\ t2.url = "http://s/job_management/mcp"

\* C23: constructing the client opens nothing.  As long as no invocation
\* has been started there is no transport and no session, whatever health
\* checks were made; every transport and every session that exists was
\* opened by a started invocation, and every recorded request by a health
\* check.
C23_NoNetworkAtConstruction ==
    /\ (\A i \in Calls : pc[i] = "idle") => transports = {} /\ sessions = {}
    /\ (\A i \in Calls : pc[i] = "idle") /\ ~ENABLED health_check => Len(health) > 0
    /\ \A t \in transports : Has(t.owner, "start") /\ Has(t.owner, "t_open")
    /\ \A s \in sessions : Has(s.owner, "start") /\ Has(s.owner, "s_open")

C23_Witness ==
    /\ \A i \in Calls : pc[i] = "idle" /\ log[i] = <<>>
    /\ health = <<>> /\ transports = {} /\ sessions = {}
    /\ base_url = "https://h" /\ headers = [Authorization |-> "Bearer k"]
    /\ ENABLED Start(1) /\ ENABLED health_check

\* C24: the tool calls of one scenario are sequential.  At every point of an
\* invocation's history the number of requests sent and not yet answered is
\* 0 or 1; a request is sent only when every earlier one has been answered;
\* each answer is the answer to the request sent last, so answers are
\* consumed in the order the calls were made; and while a request is
\* outstanding the scenario sends no other, returns nothing and raises
\* nothing of its own.
Outstanding(i, n) ==
    Cardinality({m \in 1..n : log[i][m] = "call_sent"})
        - Cardinality({m \in 1..n : log[i][m] \in {"call", "call_failed"}})

C24_ToolCallsSequential ==
    \A i \in Calls : kind[i] = "run_a_scenario" =>
        /\ \A n \in 0..Len(log[i]) : Outstanding(i, n) \in {0, 1}
        /\ \A n \in 1..Len(log[i]) :
              /\ log[i][n] = "call_sent" => Outstanding(i, n - 1) = 0
              /\ log[i][n] \in {"call", "call_failed"} =>
                    n > 1 /\ log[i][n - 1] = "call_sent"
        /\ ncalls[i] = Count(i, {"call"})
        /\ (scen[i] = "calling") <=> (Outstanding(i, Len(log[i])) = 1)
        /\ scen[i] = "calling" =>
              /\ ~ENABLED ScenarioSendCall(i)
              /\ ~ENABLED ScenarioReturn(i)
              /\ ~ENABLED ScenarioRaise(i)

C24_Witness ==
    \E i \in Calls :
        /\ kind[i] = "run_a_scenario" /\ Done(i)
        /\ Count(i, {"call_sent"}) = 2 /\ Count(i, {"call"}) = 2
        /\ Has(i, "scenario_returned")

\* C25: the polling loop always terminates.  It never makes more than 60
\* polls; a poll reporting "successful" is the last poll made; the loop is
\* left without success only after exactly 60 unsuccessful polls, and then
\* the scenario fails on its assert instead of polling on; a poll that raises
\* or fails an assert of its own ends the scenario at that poll; and the job
\* output is read only after a poll reported "successful".
C25_PollInv ==
    /\ attempts \in 0..60 /\ polls \in 0..60
    /\ polls \in {attempts, attempts + 1}
    /\ job_complete => polls = attempts + 1 /\ poll_pc # "jobs_read" /\ poll_pc # "sleep"
    /\ poll_pc = "jobs_read" => ~job_complete /\ attempts < 60 /\ polls = attempts
    /\ poll_pc = "assert_complete" => job_complete \/ (attempts = 60 /\ polls = 60)
    /\ poll_pc = "timed_out" => ~job_complete /\ attempts = 60 /\ polls = 60
    /\ poll_pc \in {"stdout_read", "output_read"} => job_complete

C25_PollStep ==
    /\ job_complete => polls' = polls /\ attempts' = attempts /\ job_complete'
    /\ poll_pc \in PollEnded => poll_pc' = poll_pc /\ polls' = polls

C25_PollingTerminates ==
    /\ [](C25_PollInv)
    /\ [][C25_PollStep]_vars
    /\ <>(poll_pc \in PollEnded)

C25_Witness ==
    poll_pc = "timed_out" /\ attempts = 60 /\ polls = 60 /\ ~job_complete

C25_WitnessSuccess ==
    poll_pc = "output_read" /\ job_complete /\ attempts = 2 /\ polls = 3

\* C26: lifetimes are nested.  In every state an open session runs over an
\* open transport of the same invocation, and a scenario that is running
\* (or suspended in a tool call) has an open, initialized session, the one it
\* was handed; in every history the transport is opened before the session
\* and closed after it, and everything the scenario does lies between the
\* end of initialize() and the close of the session.
ScenarioEvents == {"call_sent", "call", "call_failed", "scenario_returned", "scenario_raised"}

C26_LifetimesNested ==
    /\ \A s \in sessions : s.open =>
          \E t \in transports : t.id = s.transport /\ t.owner = s.owner /\ t.open
    /\ \A i \in Calls :
          /\ pc[i] = "scenario" =>
                \E s \in SessionsOf(i) :
                    s.id = sid[i] /\ arg[i] = s.id /\ s.open /\ s.initialized
          /\ Count(i, SOpen) > 0 => Count(i, TOpen) > 0 /\ First(i, TOpen) < First(i, SOpen)
          /\ Count(i, SClose) > 0 => Count(i, SOpen) > 0 /\ First(i, SOpen) < First(i, SClose)
          /\ Count(i, TClose) > 0 =>
                /\ First(i, TOpen) < First(i, TClose)
                /\ Count(i, SOpen) > 0 =>
                      Count(i, SClose) > 0 /\ First(i, SClose) < First(i, TClose)
          /\ \A n \in 1..Len(log[i]) : log[i][n] \in ScenarioEvents =>
                /\ Has(i, "initialized") /\ First(i, {"initialized"}) < n
                /\ First(i, SOpen) < First(i, {"initialized"})
                /\ Count(i, SClose) > 0 => n < First(i, SClose)

C26_Witness ==
    \E i \in Calls :
        /\ pc[i] = "scenario" /\ scen[i] = "calling" /\ ncalls[i] = 1
        /\ \E s \in SessionsOf(i) : s.open /\ s.initialized
        /\ \E t \in TransportsOf(i) : t.open

\* C27: with the empty string as category the client behaves as with no
\* category: every transport is opened at base_url + "/mcp", the endpoint a
\* client without category gets, and never at base_url + "//mcp".
C27_EmptyCategoryLikeNone ==
    category = Some("") =>
        \A t \in transports :
            /\ t.url = base_url \o "/mcp"
            /\ t.url # base_url \o "//mcp"
            /\ t.url = McpUrl(base_url, NoneType)

C27_Witness ==
    /\ category = Some("") /\ base_url = "http://s"
    /\ \E t \in transports : t.open /\ t.url = "http://s/mcp"

=============================================================================
